---- MODULE Spec2Model ----
(***************************************************************************)
(* Model of the anime caption formatter bot (main.py and its logging       *)
(* variant bot.py): the caption parser, the prefix rotation, the command   *)
(* handlers that change the settings, the configuration file and the dump  *)
(* channel forwarder with its retry loop.                                  *)
(*                                                                         *)
(* Text is modelled by TLA+ strings, read character by character with      *)
(* SubSeq.  The module is ASCII, so the non-ASCII tokens of the source are *)
(* written with stand-ins: "~" is the television emoji, "=" is the         *)
(* small-capital tail of the stylised labels ("E=" is the stylised         *)
(* EPISODE token, "Q=" the stylised QUALITY token, "A=" the stylised AUDIO *)
(* token) and "+" is the native-script Tamil word.                         *)
(***************************************************************************)
EXTENDS Integers, Sequences, FiniteSets, TLC

\* ------------------------------------------------------------------------
\* Strings
\* ------------------------------------------------------------------------

Ch(s, i) == SubSeq(s, i, i)

From(s, i) == SubSeq(s, i, Len(s))

UpperChars == "ABCDEFGHIJKLMNOPQRSTUVWXYZ"

LowerChars == "abcdefghijklmnopqrstuvwxyz"

DigitChars == "0123456789"

IsIn(c, chars) == \E k \in 1..Len(chars) : Ch(chars, k) = c

IsDigit(c) == IsIn(c, DigitChars)

IsSpace(c) == c \in {" ", "\t", "\n", "\r"}

IsWord(c) == IsIn(c, UpperChars) \/ IsIn(c, LowerChars) \/ IsDigit(c) \/ c \in {"_", "="}

LowerCh(c) ==
    IF IsIn(c, UpperChars)
    THEN Ch(LowerChars, CHOOSE k \in 1..26 : Ch(UpperChars, k) = c)
    ELSE c

RECURSIVE Lower(_)
Lower(s) == IF s = "" THEN "" ELSE LowerCh(Ch(s, 1)) \o Lower(From(s, 2))

\* sub occurs in s at position i
At(sub, s, i) == i >= 1 /\ i + Len(sub) - 1 <= Len(s) /\ SubSeq(s, i, i + Len(sub) - 1) = sub

\* sub occurs in s at position i, letter case ignored
AtI(sub, s, i) ==
    i >= 1 /\ i + Len(sub) - 1 <= Len(s) /\ Lower(SubSeq(s, i, i + Len(sub) - 1)) = Lower(sub)

Contains(sub, s) == \E i \in 1..(Len(s) + 1) : At(sub, s, i)

StartsWith(s, sub) == At(sub, s, 1)

Min(S) == CHOOSE x \in S : \A y \in S : x <= y

Max(S) == CHOOSE x \in S : \A y \in S : x >= y

\* first position at or after i whose character is not in the class (Len+1 if none)
RECURSIVE SkipSpaces(_, _)
SkipSpaces(s, i) == IF i <= Len(s) /\ IsSpace(Ch(s, i)) THEN SkipSpaces(s, i + 1) ELSE i

RECURSIVE SkipDigits(_, _)
SkipDigits(s, i) == IF i <= Len(s) /\ IsDigit(Ch(s, i)) THEN SkipDigits(s, i + 1) ELSE i

RECURSIVE SkipWord(_, _)
SkipWord(s, i) == IF i <= Len(s) /\ IsWord(Ch(s, i)) THEN SkipWord(s, i + 1) ELSE i

RECURSIVE SkipSpacesBack(_, _)
SkipSpacesBack(s, j) == IF j >= 1 /\ IsSpace(Ch(s, j)) THEN SkipSpacesBack(s, j - 1) ELSE j

\* str.strip()
Strip(s) == SubSeq(s, SkipSpaces(s, 1), SkipSpacesBack(s, Len(s)))

\* str.zfill(2)
Zfill2(s) == IF Len(s) >= 2 THEN s ELSE IF Len(s) = 1 THEN "0" \o s ELSE "00"

\* ------------------------------------------------------------------------
\* AnimeParser.extract_episode_info
\* ------------------------------------------------------------------------

NoMatch == [ok |-> FALSE]

NoNewline(s, a, b) == \A k \in a..(b - 1) : Ch(s, k) # "\n"

\* S(\d+)\s*E(\d+) or S(\d+)\s*EP(\d+) (tag "E" or "EP"), anchored at i, case
\* ignored.  Each \d+ and \s* can only take its whole run: what follows it is
\* of another character class.  e ends the season digits, f the blanks and g
\* the episode digits.
SeasonEpisodeAt(s, i, tag) ==
    LET Episode(e, f, g) ==
            IF AtI("S", s, i) /\ e > i + 1 /\ AtI(tag, s, f) /\ g > f + Len(tag)
            THEN [ok |-> TRUE, season |-> SubSeq(s, i + 1, e - 1),
                  episode |-> SubSeq(s, f + Len(tag), g - 1), end |-> g]
            ELSE NoMatch
        Blanks(e, f) == Episode(e, f, SkipDigits(s, f + Len(tag)))
        Season(e) == Blanks(e, SkipSpaces(s, e))
    IN  Season(SkipDigits(s, i + 1))

\* patterns 'bracket_se' and 'bracket_sep', anchored at i
BracketAt(s, i, tag) ==
    LET Closed(m) ==
            IF At("[", s, i) /\ m.ok /\ At("]", s, m.end)
            THEN [ok |-> TRUE, season |-> m.season, episode |-> m.episode, end |-> m.end + 1]
            ELSE NoMatch
    IN  Closed(SeasonEpisodeAt(s, i + 1, tag))

\* @\w+\s*-  anchored at i: the position after the dash, 0 when it does not match
ChannelHeadEnd(s, i) ==
    LET Dash(w, j) == IF At("@", s, i) /\ w > i + 1 /\ At("-", s, j) THEN j + 1 ELSE 0
        Word(w) == Dash(w, SkipSpaces(s, w))
    IN  Word(SkipWord(s, i + 1))

\* pattern 'channel_se': where the group (.+?) that starts at a may end, that is
\* before \s+S(\d+)\s*EP(\d+), no newline in between
ChannelSeEnds(s, a) ==
    {b \in (a + 1)..Len(s) :
        /\ NoNewline(s, a, b)
        /\ SkipSpaces(s, b) > b
        /\ SeasonEpisodeAt(s, SkipSpaces(s, b), "EP").ok}

\* pattern 'channel_se' anchored at i: after the head at p0, \s* (greedy) ends
\* at the last a that leaves a match, (.+?) (lazy) is s[a..b-1] for the first b
ChannelSeAt(s, i) ==
    LET Match(a, b, m) ==
            [ok |-> TRUE, name |-> SubSeq(s, a, b - 1), season |-> m.season,
             episode |-> m.episode]
        Group(a, b) == Match(a, b, SeasonEpisodeAt(s, SkipSpaces(s, b), "EP"))
        Starts(starts) ==
            IF starts = {} THEN NoMatch
            ELSE Group(Max(starts), Min(ChannelSeEnds(s, Max(starts))))
        AfterHead(p0) ==
            IF p0 = 0 THEN NoMatch
            ELSE Starts({a \in p0..SkipSpaces(s, p0) : ChannelSeEnds(s, a) # {}})
    IN  AfterHead(ChannelHeadEnd(s, i))

\* pattern 'channel_bracket': where the group (.+?) that starts at a may end,
\* that is before \s*\[ or at the end, no newline in between
ChannelBracketEnds(s, a) ==
    {b \in (a + 1)..(Len(s) + 1) :
        NoNewline(s, a, b) /\ (b = Len(s) + 1 \/ At("[", s, SkipSpaces(s, b)))}

\* pattern 'channel_bracket' anchored at i: head, \s*, the bracket with EP, \s*
\* (greedy) to a, (.+?) (lazy) is s[a..b-1]
ChannelBracketAt(s, i) ==
    LET Match(m, a, b) ==
            [ok |-> TRUE, name |-> SubSeq(s, a, b - 1), season |-> m.season,
             episode |-> m.episode]
        Starts(m, starts) ==
            IF starts = {} THEN NoMatch
            ELSE Match(m, Max(starts), Min(ChannelBracketEnds(s, Max(starts))))
        Bracket(m) ==
            IF ~m.ok THEN NoMatch
            ELSE Starts(m, {a \in m.end..SkipSpaces(s, m.end) : ChannelBracketEnds(s, a) # {}})
        AfterHead(p0) ==
            IF p0 = 0 THEN NoMatch ELSE Bracket(BracketAt(s, SkipSpaces(s, p0), "EP"))
    IN  AfterHead(ChannelHeadEnd(s, i))

\* re.split(r'\[S\d+', s)[0] and re.split(r'S\d+', s)[0], case ignored: the text
\* before the first occurrence of the mark followed by a digit
BeforeMark(s, mark) ==
    LET Before(hits) == IF hits = {} THEN s ELSE SubSeq(s, 1, Min(hits) - 1)
    IN  Before({i \in 1..Len(s) :
                   AtI(mark, s, i) /\ SkipDigits(s, i + Len(mark)) > i + Len(mark)})

\* AnimeParser._parse_structured_format
\* title: ~\s*([^\[]+)\s*\[S(\d+)\] : the group runs to the first "[" at k,
\* which must open [S<digits>]; the digits end at e
StructuredTitleAt(s, i) ==
    LET Title(k, e) ==
            IF k >= i + 2 /\ AtI("S", s, k + 1) /\ e > k + 2 /\ At("]", s, e)
            THEN [ok |-> TRUE, name |-> Strip(SubSeq(s, i + 1, k - 1)),
                  season |-> SubSeq(s, k + 2, e - 1)]
            ELSE NoMatch
        Open(k) == Title(k, SkipDigits(s, k + 2))
        Opens(opens) == IF At("~", s, i) /\ opens # {} THEN Open(Min(opens)) ELSE NoMatch
    IN  Opens({k \in (i + 1)..Len(s) : At("[", s, k)})

\* label\s*:\s*(\d+) anchored at i, case ignored: the digits, "" when no match.
\* The colon is at c, the digits are s[d..e-1].
LabelledNumberAt(s, i, label) ==
    LET Digits(c, d, e) ==
            IF AtI(label, s, i) /\ At(":", s, c) /\ e > d THEN SubSeq(s, d, e - 1) ELSE ""
        Value(c, d) == Digits(c, d, SkipDigits(s, d))
        Colon(c) == Value(c, SkipSpaces(s, c + 1))
    IN  Colon(SkipSpaces(s, i + Len(label)))

\* episode: E=\s*:\s*(\d+); ts and es are where the two searches match
parse_structured_format(s) ==
    LET Result(ts, es) ==
            [season |-> IF ts = {} THEN "01"
                        ELSE Zfill2(StructuredTitleAt(s, Min(ts)).season),
             episode |-> IF es = {} THEN "01"
                         ELSE Zfill2(LabelledNumberAt(s, Min(es), "E=")),
             name |-> IF ts = {} THEN "" ELSE StructuredTitleAt(s, Min(ts)).name]
    IN  Result({i \in 1..Len(s) : StructuredTitleAt(s, i).ok},
               {i \in 1..Len(s) : LabelledNumberAt(s, i, "E=") # ""})

\* a variant of SearchPatterns that tries the patterns in the reverse order
\* (C26 fails with it)
SearchPatternsReversed(s) ==
    LET P == 1..Len(s)
        cse == {i \in P : ChannelSeAt(s, i).ok}
        cbr == {i \in P : ChannelBracketAt(s, i).ok}
        bse == {i \in P : BracketAt(s, i, "E").ok}
        bsp == {i \in P : BracketAt(s, i, "EP").ok}
        sse == {i \in P : SeasonEpisodeAt(s, i, "E").ok}
        ssp == {i \in P : SeasonEpisodeAt(s, i, "EP").ok}
        Chan(m) == [season |-> Zfill2(m.season), episode |-> Zfill2(m.episode),
                    name |-> Strip(m.name)]
        Plain(m, mark) == [season |-> Zfill2(m.season), episode |-> Zfill2(m.episode),
                           name |-> Strip(BeforeMark(s, mark))]
    IN  IF ssp # {} THEN Plain(SeasonEpisodeAt(s, Min(ssp), "EP"), "S")
        ELSE IF sse # {} THEN Plain(SeasonEpisodeAt(s, Min(sse), "E"), "S")
        ELSE IF bsp # {} THEN Plain(BracketAt(s, Min(bsp), "EP"), "[S")
        ELSE IF bse # {} THEN Plain(BracketAt(s, Min(bse), "E"), "[S")
        ELSE IF cbr # {} THEN Chan(ChannelBracketAt(s, Min(cbr)))
        ELSE IF cse # {} THEN Chan(ChannelSeAt(s, Min(cse)))
        ELSE IF Contains("~", s) /\ Contains("E=", s) THEN parse_structured_format(s)
        ELSE [season |-> "01", episode |-> "01", name |-> s]

\* the patterns in their order, on the stripped text; re.search: the match at
\* the leftmost position that has one
SearchPatterns(s) ==
    LET P == 1..Len(s)
        cse == {i \in P : ChannelSeAt(s, i).ok}
        cbr == {i \in P : ChannelBracketAt(s, i).ok}
        bse == {i \in P : BracketAt(s, i, "E").ok}
        bsp == {i \in P : BracketAt(s, i, "EP").ok}
        sse == {i \in P : SeasonEpisodeAt(s, i, "E").ok}
        ssp == {i \in P : SeasonEpisodeAt(s, i, "EP").ok}
        Chan(m) == [season |-> Zfill2(m.season), episode |-> Zfill2(m.episode),
                    name |-> Strip(m.name)]
        Plain(m, mark) == [season |-> Zfill2(m.season), episode |-> Zfill2(m.episode),
                           name |-> Strip(BeforeMark(s, mark))]
    IN  IF Contains("~", s) /\ Contains("E=", s) THEN parse_structured_format(s)
        ELSE IF cse # {} THEN Chan(ChannelSeAt(s, Min(cse)))
        ELSE IF cbr # {} THEN Chan(ChannelBracketAt(s, Min(cbr)))
        ELSE IF bse # {} THEN Plain(BracketAt(s, Min(bse), "E"), "[S")
        ELSE IF bsp # {} THEN Plain(BracketAt(s, Min(bsp), "EP"), "[S")
        ELSE IF sse # {} THEN Plain(SeasonEpisodeAt(s, Min(sse), "E"), "S")
        ELSE IF ssp # {} THEN Plain(SeasonEpisodeAt(s, Min(ssp), "EP"), "S")
        ELSE [season |-> "01", episode |-> "01", name |-> s]

\* clean_text = text.strip() if text else ""
extract_episode_info(text) == SearchPatterns(Strip(text))

\* ------------------------------------------------------------------------
\* AnimeParser.extract_quality
\* ------------------------------------------------------------------------

DigitVal(c) == (CHOOSE k \in 1..10 : Ch(DigitChars, k) = c) - 1

RECURSIVE SkipZeros(_, _)
SkipZeros(s, i) == IF i <= Len(s) /\ Ch(s, i) = "0" THEN SkipZeros(s, i + 1) ELSE i

RECURSIVE DigitsValue(_)
DigitsValue(s) ==
    IF s = "" THEN 0 ELSE 10 * DigitsValue(SubSeq(s, 1, Len(s) - 1)) + DigitVal(Ch(s, Len(s)))

ValidQualities == {144, 240, 360, 480, 720, 1080, 1440, 2160}

\* int(quality_number) in [144, ..., 2160]: int() drops leading zeros, and a
\* number of more than four significant digits is above every listed value
IsValidQuality(q) ==
    LET Significant(z) == Len(z) <= 4 /\ DigitsValue(z) \in ValidQualities
    IN  Significant(From(q, SkipZeros(q, 1)))

\* (\d+)[pP] and (\d+)\s*[pP] anchored at i: the digits, "" when no match
DigitsThenP(s, i, spaces) ==
    LET Letter(e, f) == IF e > i /\ AtI("p", s, f) THEN SubSeq(s, i, e - 1) ELSE ""
        Digits(e) == Letter(e, IF spaces THEN SkipSpaces(s, e) ELSE e)
    IN  Digits(SkipDigits(s, i))

\* \[(\d+)[pP]?\] anchored at i
BracketNumberAt(s, i) ==
    LET Digits(e) ==
            IF /\ At("[", s, i)
               /\ e > i + 1
               /\ (At("]", s, e) \/ (AtI("p", s, e) /\ At("]", s, e + 1)))
            THEN SubSeq(s, i + 1, e - 1) ELSE ""
    IN  Digits(SkipDigits(s, i + 1))

\* group 1 of the k-th entry of quality_patterns anchored at i, "" when no match
QualityPattern(s, k, i) ==
    CASE k = 1 -> DigitsThenP(s, i, FALSE)
      [] k = 2 -> BracketNumberAt(s, i)
      [] k = 3 -> LabelledNumberAt(s, i, "Q=")
      [] k = 4 -> LabelledNumberAt(s, i, "QUALITY")
      [] k = 5 -> DigitsThenP(s, i, TRUE)

\* group 1 of re.search for the k-th pattern, "" when it matches nowhere
QualityMatch(s, k) ==
    LET Leftmost(hits) == IF hits = {} THEN "" ELSE QualityPattern(s, k, Min(hits))
    IN  Leftmost({i \in 1..Len(s) : QualityPattern(s, k, i) # ""})

\* the first pattern whose match is an allowed number gives the quality
extract_quality(text) ==
    LET Allowed(q) == q # "" /\ IsValidQuality(q)
        First(good) == IF good = {} THEN "720P" ELSE QualityMatch(text, Min(good)) \o "P"
    IN  First({k \in 1..5 : Allowed(QualityMatch(text, k))})

\* ------------------------------------------------------------------------
\* AnimeParser.extract_language
\* ------------------------------------------------------------------------

language_mappings ==
    << <<"+", "Tam">>, <<"tamil", "Tam">>, <<"tam", "Tam">>, <<"english", "Eng">>,
       <<"eng", "Eng">>, <<"multi audio", "Multi">>, <<"multi", "Multi">>,
       <<"dual audio", "Dual">>, <<"dual", "Dual">> >>

\* a variant of FirstLanguage that returns the value of the last key that
\* occurs in t (C27 fails with it)
LastLanguage(t) ==
    LET Last(hits) == IF hits = {} THEN "" ELSE language_mappings[Max(hits)][2]
    IN  Last({k \in 1..Len(language_mappings) : Contains(language_mappings[k][1], t)})

\* the value of the first key, in table order, that occurs in t; "" when none does
FirstLanguage(t) ==
    LET First(hits) == IF hits = {} THEN "" ELSE language_mappings[Min(hits)][2]
    IN  First({k \in 1..Len(language_mappings) : Contains(language_mappings[k][1], t)})

AudioChar(c) == c \notin {",", "\n", "]"}

RECURSIVE SkipAudio(_, _)
SkipAudio(s, i) == IF i <= Len(s) /\ AudioChar(Ch(s, i)) THEN SkipAudio(s, i + 1) ELSE i

\* (?:A=|Audio)\s*:\s*([^,\n\]]+) anchored at i: the label has n characters,
\* the colon is at c, and \s* after the colon takes the longest run that still
\* leaves the group a first character
AudioAt(s, i) ==
    LET Text(p) == [ok |-> TRUE, text |-> SubSeq(s, p, SkipAudio(s, p) - 1)]
        Starts(starts) == IF starts = {} THEN NoMatch ELSE Text(Max(starts))
        Colon(c) ==
            IF ~At(":", s, c) THEN NoMatch
            ELSE Starts({p \in (c + 1)..SkipSpaces(s, c + 1) :
                            p <= Len(s) /\ AudioChar(Ch(s, p))})
        Label(n) == IF n = 0 THEN NoMatch ELSE Colon(SkipSpaces(s, i + n))
    IN  Label(IF AtI("A=", s, i) THEN 2 ELSE IF AtI("Audio", s, i) THEN 5 ELSE 0)

\* the audio segment first, the whole text after it
extract_language(text) ==
    LET InText(found) == IF found # "" THEN found ELSE FirstLanguage(Lower(text))
        Audio(hits) ==
            IF hits = {} THEN FirstLanguage(Lower(text))
            ELSE InText(FirstLanguage(Lower(Strip(AudioAt(text, Min(hits)).text))))
    IN  Audio({i \in 1..Len(text) : AudioAt(text, i).ok})

\* ------------------------------------------------------------------------
\* AnimeParser.clean_anime_name
\* ------------------------------------------------------------------------

\* re.sub(open .*? close, ''): every leftmost opening mark whose nearest closing
\* mark comes before any newline is removed with what it encloses
RECURSIVE RemoveEnclosed(_, _, _)
RemoveEnclosed(s, open, close) ==
    LET Close(i) == {j \in (i + 1)..Len(s) : At(close, s, j)}
        Encloses(i, closes) == closes # {} /\ NoNewline(s, i + 1, Min(closes))
        Cut(i) ==
            SubSeq(s, 1, i - 1) \o RemoveEnclosed(From(s, Min(Close(i)) + 1), open, close)
        Starts(starts) == IF starts = {} THEN s ELSE Cut(Min(starts))
    IN  Starts({i \in 1..Len(s) : At(open, s, i) /\ Encloses(i, Close(i))})

\* re.sub(r'^@\w+\s*-\s*', '')
RemoveChannelPrefix(s) ==
    LET AfterHead(p0) == IF p0 = 0 THEN s ELSE From(s, SkipSpaces(s, p0))
    IN  AfterHead(ChannelHeadEnd(s, 1))

\* re.sub(r'^\s*-\s*', '')
RemoveLeadingDash(s) ==
    LET Dash(d) == IF At("-", s, d) THEN From(s, SkipSpaces(s, d + 1)) ELSE s
    IN  Dash(SkipSpaces(s, 1))

\* re.sub(r'\s*-\s*$', '')
RemoveTrailingDash(s) ==
    LET Dash(d) == IF At("-", s, d) THEN SubSeq(s, 1, SkipSpacesBack(s, d - 1)) ELSE s
    IN  Dash(SkipSpacesBack(s, Len(s)))

WordBoundary(s, i, n) ==
    /\ (i = 1 \/ ~IsWord(Ch(s, i - 1)))
    /\ (i + n > Len(s) \/ ~IsWord(Ch(s, i + n)))

\* re.sub(rf'\b{old}\b', new), case ignored
RECURSIVE ReplaceWord(_, _, _)
ReplaceWord(s, old, new) ==
    LET Replace(i) ==
            SubSeq(s, 1, i - 1) \o new \o ReplaceWord(From(s, i + Len(old)), old, new)
        Hits(hits) == IF hits = {} THEN s ELSE Replace(Min(hits))
    IN  Hits({i \in 1..Len(s) : AtI(old, s, i) /\ WordBoundary(s, i, Len(old))})

SpecialChars == {"!", "@", "#", "$", "%", "^", "&", "*", "(", ")", ",", ".", "?", "\"", ":",
                 "{", "}", "|", "<", ">"}

RECURSIVE RemoveSpecial(_)
RemoveSpecial(s) ==
    IF s = "" THEN ""
    ELSE (IF Ch(s, 1) \in SpecialChars THEN "" ELSE Ch(s, 1)) \o RemoveSpecial(From(s, 2))

\* re.sub(r'\s+', ' ')
RECURSIVE CollapseSpaces(_)
CollapseSpaces(s) ==
    IF s = "" THEN ""
    ELSE IF IsSpace(Ch(s, 1)) THEN " " \o CollapseSpaces(From(s, SkipSpaces(s, 1)))
    ELSE Ch(s, 1) \o CollapseSpaces(From(s, 2))

clean_anime_name(name) ==
    IF name = "" THEN ""
    ELSE LET n1 == RemoveChannelPrefix(name)
             n2 == RemoveEnclosed(n1, "[", "]")
             n3 == RemoveEnclosed(n2, "(", ")")
             n4 == RemoveTrailingDash(RemoveLeadingDash(n3))
             n5 == ReplaceWord(ReplaceWord(ReplaceWord(ReplaceWord(n4,
                        "Tamil", "Tam"), "English", "Eng"), "Dubbed", "Dub"), "Subbed", "Sub")
         IN  Strip(CollapseSpaces(RemoveSpecial(n5)))

\* ------------------------------------------------------------------------
\* parse_caption
\* ------------------------------------------------------------------------

\* the extension sniffed from the caption
Extension(s) ==
    LET Sniff(t) ==
            IF Contains(".mp4", t) THEN ".mp4" ELSE IF Contains(".avi", t) THEN ".avi"
            ELSE ".mkv"
    IN  Sniff(Lower(s))

\* what the extractors return for one caption (they read no global)
Extract(caption) ==
    LET Fields(original_caption, info) ==
            [season |-> info.season, episode |-> info.episode,
             cleaned |-> clean_anime_name(info.name),
             quality |-> extract_quality(original_caption),
             language |-> extract_language(original_caption),
             extension |-> Extension(original_caption)]
        Stripped(original_caption) ==
            Fields(original_caption, extract_episode_info(original_caption))
    IN  Stripped(Strip(caption))

\* a variant of AnimeName that does not look at the fixed name (C18 fails with
\* it)
AnimeNameExtracted(fixed, cleaned, language) ==
    LET Tagged(base) ==
            IF language # "" /\ ~Contains(language, base)
            THEN Strip(base \o " " \o language) ELSE base
    IN  Tagged(IF cleaned # "" THEN cleaned ELSE "Unknown Anime")

\* anime_name: the fixed name or the cleaned extracted one, then the language
AnimeName(fixed, cleaned, language) ==
    LET Tagged(base) ==
            IF language # "" /\ ~Contains(language, base)
            THEN Strip(base \o " " \o language) ELSE base
    IN  Tagged(IF fixed # "" THEN fixed
               ELSE IF cleaned # "" THEN cleaned ELSE "Unknown Anime")

\* a variant of PrefixIndex that does not rotate (C28 fails with it)
PrefixIndexFirst(count, len) == 0

\* a variant of PrefixIndex that divides the counter as it stands, one block
\* of three too early (C1 fails with it)
PrefixIndexLate(count, len) == (count \div 3) % len

\* prefix_index = (message_count - 1) // 3 % len(prefixes)
PrefixIndex(count, len) == ((count - 1) \div 3) % len

\* a variant of CurrentPrefix without the built-in token for an empty list (C15
\* fails with it)
CurrentPrefixNoDefault(count, pfx) ==
    IF pfx # <<>> THEN pfx[PrefixIndex(count, Len(pfx)) + 1] ELSE ""

\* current_prefix (Python indexes from 0, a TLA+ sequence from 1)
CurrentPrefix(count, pfx) ==
    IF pfx # <<>> THEN pfx[PrefixIndex(count, Len(pfx)) + 1] ELSE "/leech -n"

\* a variant of FormatCaption that leaves out the space after the title (C4
\* fails with it)
FormatCaptionJoined(prefix, season_episode, anime_name, quality, extension) ==
    prefix \o " " \o season_episode \o " " \o anime_name \o "[" \o quality \o "] [Single]"
        \o extension

\* formatted_caption
FormatCaption(prefix, season_episode, anime_name, quality, extension) ==
    prefix \o " " \o season_episode \o " " \o anime_name \o " [" \o quality \o "] [Single]"
        \o extension

\* if not caption: return ""
IsEmptyCaption(caption) == caption = ""

\* ------------------------------------------------------------------------
\* The inputs and bounds of the model
\* ------------------------------------------------------------------------

\* message_count is not raised beyond this
MaxCount == 7

\* the prefix list is edited while it is no longer than this
MaxPrefixes == 2

\* prefixes = [...] at module level
DefaultPrefixes ==
    <<"/leech -n", "/leech1 -n", "/leech2 -n", "/leechx -n", "/leech4 -n", "/leech3 -n",
      "/leech5 -n">>

\* the arguments given to /addprefix
PrefixTokens == {"/leech -n", "/leech1 -n", "/mirror -n"}

\* the numbers given to /delprefix: the list is shown from 1, so the number n
\* stands for the index n - 1
DelNumbers == 0..(MaxPrefixes + 1)

\* the arguments given to /name
Names == {"One Piece"}

\* the arguments given to /dumpchannel
Channels == {"-1001234567890"}

Captions ==
    {"@Channel - Naruto S01 EP05 [720p] Tamil", "[S02 E10] whatever [1080p].mp4", "hello"}

BlankCaptions == {"  "}

Inputs == Captions \cup BlankCaptions \cup {""}

\* the captions of ParseSpec: quality numbers in and out of the allow-list,
\* short and long season and episode numbers, titles that the cleaner changes
ParserCaptions ==
    {"x 999p [1080]", "x 999p 480p", "x 4k", "x 0720p", "Q=: 2160", "show 360 P.avi",
     "- - Naruto",
     "S1E2 abc", "abc S100 E1000 [144p]", "[S2 E3] Dual Audio x.MP4",
     "~ Bleach [S03]\nE= : 7\nQ= : 480p\nA= : Tamil", "Tam.il", "(S01E02)",
     "~ E= [S4 E5]", "@c - [S1 EP2] N S3 EP4", "@c - N S1 EP2 [S3 E4]",
     "[S3 E4] @c - [S1 EP2] N", "[S1 EP2] x [S3 E4]", "S1 E2 [S3 E4]", "x [S1 EP2]",
     "S1 EP2 S3 E4",
     "A=: eng tamil", "A=: dual, tamil", "A=: x\ntamil eng", "dual eng"}

\* the arguments given to /name in ParseSpec
ParserNames == {"One Piece", "Tam Show", "[S09-E09] X"}

\* the extractors' results for the captions of the model, tabulated
ExtractTable == [c \in Captions \cup BlankCaptions \cup ParserCaptions |-> Extract(c)]

\* the prefix lists of the configuration files the bot may start from
StartPrefixes == {<<"/leech -n">>, <<"/leech -n", "/leech1 -n">>}

NoFile == [exists |-> FALSE]

ConfigFile(fixed, pfx, dump, count) ==
    [exists |-> TRUE, fixed_anime_name |-> fixed, prefixes |-> pfx,
     dump_channel_id |-> dump, message_count |-> count]

StartFiles == {NoFile} \cup {ConfigFile("", p, "", 0) : p \in StartPrefixes}

\* ------------------------------------------------------------------------
\* State
\* ------------------------------------------------------------------------

VARIABLES
    impl,               \* "main" (main.py) or "bot" (bot.py): the script that runs
    message_count,      \* global message_count
    prefixes,           \* global prefixes
    fixed_anime_name,   \* global fixed_anime_name
    dump_channel_id,    \* global dump_channel_id
    config,             \* the contents of CONFIG_FILE
    pc,                 \* "idle", or where the running handler is: "forward", "done"
    call,               \* the last parse_caption call: its argument, locals and result;
                        \* after /status of main.py, the prefix it showed
    reply,              \* what the last handler answered
    fwd,                \* the running send_to_dump_channel call
    nCalls,             \* parse_caption calls since the start (history)
    changed,            \* the prefix list was edited or the bot restarted (history)
    before,             \* the prefix list when the last handler began (history)
    tasks               \* the parse_caption calls of the handlers that run side by side

vars == <<impl, message_count, prefixes, fixed_anime_name, dump_channel_id, config, pc,
          call, reply, fwd, nCalls, changed, before, tasks>>

NoCall == [op |-> "none"]

NoFwd == [caller |-> "none"]

\* the handlers that may run side by side
MaxTasks == 2

Tasks == 1..MaxTasks

\* no handler has called parse_caption yet
NoTasks == [t \in Tasks |-> [at |-> "idle"]]

\* save_config: the four settings written to the file
Saved(fixed, pfx, dump, count) == ConfigFile(fixed, pfx, dump, count)

\* load_config: the globals after it ran on a file, starting from the module's
\* defaults.  main.py replaces an empty prefix list by the default one.
Loaded(script, file) ==
    IF ~file.exists
    THEN [fixed_anime_name |-> "", prefixes |-> DefaultPrefixes, dump_channel_id |-> "",
          message_count |-> 0]
    ELSE [fixed_anime_name |-> file.fixed_anime_name,
          prefixes |-> IF script = "main" /\ file.prefixes = <<>>
                       THEN DefaultPrefixes ELSE file.prefixes,
          dump_channel_id |-> file.dump_channel_id,
          message_count |-> file.message_count]

\* main(): load_config() before the handlers run; a missing file is created
Startup(script, file) ==
    LET g == Loaded(script, file)
    IN  /\ impl' = script
        /\ message_count' = g.message_count
        /\ prefixes' = g.prefixes
        /\ fixed_anime_name' = g.fixed_anime_name
        /\ dump_channel_id' = g.dump_channel_id
        /\ config' = IF file.exists THEN file
                     ELSE Saved(g.fixed_anime_name, g.prefixes, g.dump_channel_id,
                                g.message_count)
        /\ pc' = "idle"
        /\ call' = NoCall
        /\ reply' = "none"
        /\ fwd' = NoFwd

Init ==
    \E script \in {"main", "bot"}, file \in StartFiles :
        LET g == Loaded(script, file)
        IN  /\ impl = script
            /\ message_count = g.message_count
            /\ prefixes = g.prefixes
            /\ fixed_anime_name = g.fixed_anime_name
            /\ dump_channel_id = g.dump_channel_id
            /\ config = IF file.exists THEN file
                        ELSE Saved(g.fixed_anime_name, g.prefixes, g.dump_channel_id,
                                   g.message_count)
            /\ pc = "idle"
            /\ call = NoCall
            /\ reply = "none"
            /\ fwd = NoFwd
            /\ nCalls = 0
            /\ changed = FALSE
            /\ before = g.prefixes
            /\ tasks = NoTasks

\* the process is stopped and started again (only between handlers)
Restart ==
    /\ pc = "idle"
    /\ Startup(impl, config)
    /\ nCalls' = 0
    /\ changed' = TRUE
    /\ before' = prefixes
    /\ tasks' = NoTasks

\* ------------------------------------------------------------------------
\* parse_caption and the handlers that call it
\* ------------------------------------------------------------------------

\* parse_caption(caption) run with the counter already raised to count: its
\* argument, its locals and the string it returns
ParseCaption(caption, count, fixed, pfx) ==
    LET Formatted(x, season_episode, anime_name, current_prefix) ==
            [op |-> "parse", caption |-> caption,
             formatted |-> FormatCaption(current_prefix, season_episode, anime_name,
                                         x.quality, x.extension),
             prefix_index |-> IF pfx # <<>> THEN PrefixIndex(count, Len(pfx)) ELSE -1,
             current_prefix |-> current_prefix, season |-> x.season,
             episode |-> x.episode, anime_name |-> anime_name, quality |-> x.quality,
             language |-> x.language, extension |-> x.extension]
        Parsed(x) ==
            Formatted(x, "[S" \o x.season \o "-E" \o x.episode \o "]",
                      AnimeName(fixed, x.cleaned, x.language), CurrentPrefix(count, pfx))
    IN  IF IsEmptyCaption(caption)
        THEN [op |-> "parse", caption |-> caption, formatted |-> "", prefix_index |-> -1,
              current_prefix |-> "", season |-> "", episode |-> "", anime_name |-> "",
              quality |-> "", language |-> "", extension |-> ""]
        ELSE Parsed(ExtractTable[caption])

\* a variant of CountAfterCall in which the update is lost (C21 fails with it)
CountAfterCallLost(count) == count

\* a variant of CountAfterCall that counts a call twice (C16 fails with it)
CountAfterCallTwice(count) == count + 2

\* message_count += 1 is the first statement of parse_caption
CountAfterCall(count) == count + 1

\* the part of every parse_caption call that changes the globals
DoParse(caption) ==
    /\ message_count < MaxCount
    /\ message_count' = CountAfterCall(message_count)
    /\ call' = ParseCaption(caption, message_count', fixed_anime_name, prefixes)
    /\ nCalls' = IF changed THEN 0 ELSE nCalls + 1
    /\ before' = prefixes
    /\ UNCHANGED <<impl, prefixes, fixed_anime_name, dump_channel_id, changed>>

\* parse_caption called on its own
Format(caption) ==
    /\ pc = "idle"
    /\ DoParse(caption)
    /\ reply' = "none"
    /\ UNCHANGED <<config, pc, fwd, tasks>>

\* format_command: the joined arguments are never empty and carry no outer blanks
FormatCommand(caption) ==
    /\ pc = "idle"
    /\ DoParse(caption)
    /\ reply' = IF impl = "bot" /\ call'.formatted = "" THEN "format_failed" ELSE "format_result"
    /\ UNCHANGED <<config, pc, fwd, tasks>>

\* A handler that runs beside others calls parse_caption.  Nothing is awaited
\* between message_count += 1 and the return value being built, so the event
\* loop runs these statements as one step; bot.py then awaits
\* log_manager.log_format_action and other handlers may run, main.py returns.
TaskParse(t, caption) ==
    /\ pc = "idle"
    /\ tasks[t].at = "idle"
    /\ DoParse(caption)
    /\ tasks' = [tasks EXCEPT ![t] =
                    [at |-> IF impl = "bot" /\ ~IsEmptyCaption(caption)
                            THEN "logging" ELSE "returned",
                     read |-> message_count, count |-> message_count',
                     pfx |-> prefixes, formatted |-> call'.formatted,
                     prefix_index |-> call'.prefix_index,
                     current_prefix |-> call'.current_prefix]]
    /\ UNCHANGED <<config, pc, reply, fwd>>

\* log_manager.log_format_action has returned: parse_caption of bot.py returns
TaskLogged(t) ==
    /\ tasks[t].at = "logging"
    /\ tasks' = [tasks EXCEPT ![t].at = "returned"]
    /\ UNCHANGED <<impl, message_count, prefixes, fixed_anime_name, dump_channel_id, config,
                   pc, call, reply, fwd, nCalls, changed, before>>

\* ------------------------------------------------------------------------
\* send_to_dump_channel
\* ------------------------------------------------------------------------

max_retries == 3

RECURSIVE NatToStr(_)
NatToStr(n) ==
    IF n < 10 THEN Ch(DigitChars, n + 1)
    ELSE NatToStr(n \div 10) \o Ch(DigitChars, (n % 10) + 1)

\* what context.bot.send_message may do: return, raise a TelegramError with a
\* message, or raise another exception
TelegramErrors ==
    {"Chat not found", "Not Found",
     "Forbidden: bot is not a member of the channel chat",
     "Not enough rights to send text messages to the chat",
     "Network error", "Message is too long"}

Outcomes ==
    {[kind |-> "ok", text |-> ""], [kind |-> "exception", text |-> "Event loop is closed"]}
        \cup {[kind |-> "telegram", text |-> e] : e \in TelegramErrors}

Return(success, detail) == [returned |-> TRUE, success |-> success, detail |-> detail]

Continue == [returned |-> FALSE]

\* a variant of the TelegramError branch that classifies nothing and retries
\* every error (C6 fails with it)
OnTelegramErrorUnclassified(r, e) ==
    IF r >= max_retries
    THEN Return(FALSE, "Failed after " \o NatToStr(max_retries) \o " attempts: " \o e)
    ELSE Continue

\* a variant of the TelegramError branch that gives up at the first error (C9
\* fails with it)
OnTelegramErrorOnce(r, e) ==
    Return(FALSE, "Failed after " \o NatToStr(r) \o " attempts: " \o e)

\* the TelegramError branch of main.py, retry_count already raised to r
OnTelegramErrorMain(r, e) ==
    LET error_str == Lower(e)
    IN  IF Contains("chat not found", error_str)
        THEN Return(FALSE, "Dump channel not found")
        ELSE IF Contains("not enough rights", error_str) \/ Contains("forbidden", error_str)
        THEN Return(FALSE, "Bot lacks permissions in dump channel")
        ELSE IF Contains("network", error_str) \/ Contains("timeout", error_str)
        THEN IF r < max_retries THEN Continue
             ELSE Return(FALSE, "Network error after " \o NatToStr(max_retries) \o " attempts")
        ELSE IF r >= max_retries
        THEN Return(FALSE, "Failed after " \o NatToStr(max_retries) \o " attempts: " \o e)
        ELSE Continue

\* the TelegramError branch of bot.py
OnTelegramErrorBot(r, e) ==
    IF Contains("chat not found", Lower(e))
    THEN Return(FALSE, "Dump channel not found")
    ELSE IF Contains("not enough rights", Lower(e))
    THEN Return(FALSE, "Bot lacks permissions in dump channel")
    ELSE IF r >= max_retries
    THEN Return(FALSE, "Failed after " \o NatToStr(max_retries) \o " attempts: " \o e)
    ELSE Continue

\* a variant of Attempt that does not raise retry_count on a TelegramError (C5
\* fails with it)
AttemptUncounted(script, retry_count, o) ==
    IF o.kind = "ok" THEN [retry_count |-> retry_count, ret |-> Return(TRUE, "Success")]
    ELSE [retry_count |-> retry_count, ret |-> Continue]

\* a variant of Attempt that goes on sending after a send_message call has
\* returned (C8 fails with it)
AttemptAfterSuccess(script, retry_count, o) ==
    [retry_count |-> retry_count + 1,
     ret |-> IF retry_count + 1 < max_retries THEN Continue
             ELSE IF o.kind = "ok" THEN Return(TRUE, "Success")
             ELSE Return(FALSE, "Max retries exceeded")]

\* a variant of Attempt that takes an exception that is no TelegramError for
\* an error to retry (C22 fails with it)
AttemptExceptionRetried(script, retry_count, o) ==
    IF o.kind = "ok" THEN [retry_count |-> retry_count, ret |-> Return(TRUE, "Success")]
    ELSE LET r == retry_count + 1
             h == IF o.kind = "exception" THEN Continue
                  ELSE IF script = "main" THEN OnTelegramErrorMain(r, o.text)
                  ELSE OnTelegramErrorBot(r, o.text)
         IN  [retry_count |-> r,
              ret |-> IF h.returned THEN h
                      ELSE IF r < max_retries THEN Continue
                      ELSE Return(FALSE, "Max retries exceeded")]

\* one pass of the while loop, the send_message call having ended with outcome o:
\* the new retry_count and what the function returns, if it does.  When the
\* handler falls through, the loop test runs next and its failure returns.
Attempt(script, retry_count, o) ==
    IF o.kind = "ok" THEN [retry_count |-> retry_count, ret |-> Return(TRUE, "Success")]
    ELSE IF o.kind = "exception"
    THEN [retry_count |-> retry_count, ret |-> Return(FALSE, "Unexpected error: " \o o.text)]
    ELSE LET r == retry_count + 1
             h == IF script = "main" THEN OnTelegramErrorMain(r, o.text)
                  ELSE OnTelegramErrorBot(r, o.text)
         IN  [retry_count |-> r,
              ret |-> IF h.returned THEN h
                      ELSE IF r < max_retries THEN Continue
                      ELSE Return(FALSE, "Max retries exceeded")]

\* Attempt for every script, retry_count and outcome of the model, tabulated
AttemptTable ==
    [script \in {"main", "bot"} |->
        [r \in 0..(max_retries - 1) |-> [o \in Outcomes |-> Attempt(script, r, o)]]]

\* a variant of NotConfigured that lets an empty dump_channel_id through (C10
\* fails with it)
NeverNotConfigured(dump) == FALSE

\* if not dump_channel_id: return False, "Dump channel not configured"
NotConfigured(dump) == dump = ""

\* a variant of log_dump_channel_action that counts every call as a send (C29
\* fails with it)
LogDumpChannelActionSends(stats, success) == [stats EXCEPT !.sends = @ + 1]

\* LogChannelManager.log_dump_channel_action of bot.py; stats holds by how much
\* the running call has raised bot_stats["dump_channel_sends"] and
\* bot_stats["dump_channel_fails"]
LogDumpChannelAction(stats, success) ==
    IF success THEN [stats EXCEPT !.sends = @ + 1] ELSE [stats EXCEPT !.fails = @ + 1]

\* bot.py calls log_dump_channel_action before every return inside the loop;
\* the return after the loop and main.py do not
Logs(script, ret) ==
    script = "bot" /\ ret.returned /\ ret.detail # "Max retries exceeded"

\* send_to_dump_channel is entered; waits holds the delays slept between the
\* send_message calls
BeginForward(caller, text) ==
    IF NotConfigured(dump_channel_id)
    THEN /\ fwd' = [caller |-> caller, text |-> text, retry_count |-> 0, sent |-> 0,
                    outcomes |-> <<>>, waits |-> <<>>, stats |-> [sends |-> 0, fails |-> 0],
                    ret |-> Return(FALSE, "Dump channel not configured")]
         /\ pc' = "done"
    ELSE /\ fwd' = [caller |-> caller, text |-> text, retry_count |-> 0, sent |-> 0,
                    outcomes |-> <<>>, waits |-> <<>>, stats |-> [sends |-> 0, fails |-> 0],
                    ret |-> Continue]
         /\ pc' = "forward"

\* send_to_dump_channel called on its own
Forward(text) ==
    /\ pc = "idle"
    /\ BeginForward("direct", text)
    /\ call' = NoCall
    /\ reply' = "none"
    /\ before' = prefixes
    /\ UNCHANGED <<impl, message_count, prefixes, fixed_anime_name, dump_channel_id, config,
                   nCalls, changed, tasks>>

\* one send_message call of the running send_to_dump_channel and what follows
\* it; the loop goes to the next call without sleeping
SendAttempt(o) ==
    /\ pc = "forward"
    /\ fwd.retry_count < max_retries
    /\ LET a == AttemptTable[impl][fwd.retry_count][o]
       IN  /\ fwd' = [fwd EXCEPT !.retry_count = a.retry_count, !.sent = @ + 1,
                                 !.outcomes = Append(@, o), !.ret = a.ret,
                                 !.stats = IF Logs(impl, a.ret)
                                           THEN LogDumpChannelAction(@, a.ret.success)
                                           ELSE @]
           /\ pc' = IF a.ret.returned THEN "done" ELSE "forward"
    /\ before' = prefixes
    /\ UNCHANGED <<impl, message_count, prefixes, fixed_anime_name, dump_channel_id, config,
                   call, reply, nCalls, changed, tasks>>

\* send_to_dump_channel has returned: the handler answers the user and saves
\* the configuration; a call on its own just ends
Finish ==
    /\ pc = "done"
    /\ pc' = "idle"
    /\ fwd' = NoFwd
    /\ call' = NoCall
    /\ IF fwd.caller = "direct"
       THEN reply' = "none" /\ UNCHANGED config
       ELSE /\ reply' = IF fwd.ret.success THEN "sent_to_dump" ELSE "dump_failed"
            /\ config' = Saved(fixed_anime_name, prefixes, dump_channel_id, message_count)
    /\ before' = prefixes
    /\ UNCHANGED <<impl, message_count, prefixes, fixed_anime_name, dump_channel_id,
                   nCalls, changed, tasks>>

\* a variant of DumpSet that takes every dump channel for set (C25 fails with
\* it)
DumpAlwaysSet(dump) == TRUE

\* if dump_channel_id: in handle_media_with_caption
DumpSet(dump) == dump # ""

\* handle_media_with_caption
HandleMedia(caption) ==
    /\ pc = "idle"
    /\ UNCHANGED tasks
    /\ IF caption = ""
       THEN /\ call' = NoCall
            /\ reply' = "none"
            /\ before' = prefixes
            /\ UNCHANGED <<impl, message_count, prefixes, fixed_anime_name, dump_channel_id,
                           config, pc, fwd, nCalls, changed>>
       ELSE /\ DoParse(caption)
            /\ IF call'.formatted # "" /\ call'.formatted # caption
               THEN IF DumpSet(dump_channel_id)
                    THEN /\ BeginForward("media", call'.formatted)
                         /\ reply' = "none"
                         /\ UNCHANGED config
                    ELSE /\ reply' = "formatted"
                         /\ config' = Saved(fixed_anime_name, prefixes, dump_channel_id,
                                            message_count')
                         /\ UNCHANGED <<pc, fwd>>
               ELSE /\ reply' = "parsing_failed"
                    /\ UNCHANGED <<config, pc, fwd>>

\* handle_text_message (main.py only)
HandleText(text) ==
    /\ pc = "idle"
    /\ impl = "main"
    /\ UNCHANGED tasks
    /\ DoParse(text)
    /\ IF dump_channel_id # ""
       THEN /\ BeginForward("text", call'.formatted)
            /\ reply' = "none"
            /\ UNCHANGED config
       ELSE /\ reply' = "text_result"
            /\ config' = Saved(fixed_anime_name, prefixes, dump_channel_id, message_count')
            /\ UNCHANGED <<pc, fwd>>

\* ------------------------------------------------------------------------
\* The commands that change or show the settings
\* ------------------------------------------------------------------------

Idle(r) ==
    /\ pc = "idle"
    /\ pc' = "idle"
    /\ reply' = r
    /\ call' = NoCall
    /\ fwd' = NoFwd
    /\ before' = prefixes
    /\ UNCHANGED <<impl, message_count, nCalls, tasks>>

\* a variant of Pop that always removes the last element (C11 fails with it)
PopLast(pfx, index) == SubSeq(pfx, 1, Len(pfx) - 1)

\* a variant of Pop that always removes the first element (C13 fails with it)
PopFirst(pfx, index) == SubSeq(pfx, 2, Len(pfx))

\* prefixes.pop(index)
Pop(pfx, index) == SubSeq(pfx, 1, index) \o SubSeq(pfx, index + 2, Len(pfx))

\* a variant of addprefix_command that appends without looking for the token
\* in the list (C12 fails with it)
AddPrefixAlways(new_prefix) ==
    /\ Len(prefixes) < MaxPrefixes
    /\ Idle("added")
    /\ prefixes' = Append(prefixes, new_prefix)
    /\ config' = Saved(fixed_anime_name, prefixes', dump_channel_id, message_count)
    /\ changed' = TRUE
    /\ UNCHANGED <<fixed_anime_name, dump_channel_id>>

\* addprefix_command; args "" stands for no argument
AddPrefixCommand(new_prefix) ==
    IF new_prefix = ""
    THEN Idle("usage") /\ UNCHANGED <<prefixes, fixed_anime_name, dump_channel_id, config, changed>>
    ELSE IF \E k \in 1..Len(prefixes) : prefixes[k] = new_prefix
    THEN Idle("duplicate") /\ UNCHANGED <<prefixes, fixed_anime_name, dump_channel_id, config, changed>>
    ELSE /\ Len(prefixes) < MaxPrefixes
         /\ Idle("added")
         /\ prefixes' = Append(prefixes, new_prefix)
         /\ config' = Saved(fixed_anime_name, prefixes', dump_channel_id, message_count)
         /\ changed' = TRUE
         /\ UNCHANGED <<fixed_anime_name, dump_channel_id>>

\* delprefix_command given the number n (the list is shown from 1)
DelPrefixCommand(n) ==
    LET index == n - 1
    IN  IF index < 0 \/ index >= Len(prefixes)
        THEN Idle("invalid_index")
             /\ UNCHANGED <<prefixes, fixed_anime_name, dump_channel_id, config, changed>>
        ELSE /\ Len(prefixes) <= MaxPrefixes
             /\ Idle("deleted")
             /\ prefixes' = Pop(prefixes, index)
             /\ config' = Saved(fixed_anime_name, prefixes', dump_channel_id, message_count)
             /\ changed' = TRUE
             /\ UNCHANGED <<fixed_anime_name, dump_channel_id>>

\* prefixlist_command
PrefixListCommand ==
    /\ Idle(IF prefixes = <<>> THEN "no_prefixes" ELSE "prefix_list")
    /\ UNCHANGED <<prefixes, fixed_anime_name, dump_channel_id, config, changed>>

\* name_command; "" stands for no argument
NameCommand(new_name) ==
    IF new_name = ""
    THEN Idle("current_name") /\ UNCHANGED <<prefixes, fixed_anime_name, dump_channel_id, config, changed>>
    ELSE /\ Idle(IF Lower(new_name) = "reset" THEN "name_reset" ELSE "name_set")
         /\ fixed_anime_name' = IF Lower(new_name) = "reset" THEN "" ELSE new_name
         /\ config' = Saved(fixed_anime_name', prefixes, dump_channel_id, message_count)
         /\ UNCHANGED <<prefixes, dump_channel_id, changed>>

\* dumpchannel_command; "" stands for no argument
DumpChannelCommand(channel_input) ==
    IF channel_input = ""
    THEN Idle("current_channel") /\ UNCHANGED <<prefixes, fixed_anime_name, dump_channel_id, config, changed>>
    ELSE IF Lower(channel_input) = "reset" \/ StartsWith(channel_input, "-")
            \/ StartsWith(channel_input, "@")
    THEN /\ Idle(IF Lower(channel_input) = "reset" THEN "channel_reset" ELSE "channel_set")
         /\ dump_channel_id' = IF Lower(channel_input) = "reset" THEN "" ELSE channel_input
         /\ config' = Saved(fixed_anime_name, prefixes, dump_channel_id', message_count)
         /\ UNCHANGED <<prefixes, fixed_anime_name, changed>>
    ELSE Idle("invalid_channel") /\ UNCHANGED <<prefixes, fixed_anime_name, dump_channel_id, config, changed>>

\* a variant of StatusPrefix that shows the prefix of the last parse_caption
\* call (C30 fails with it)
StatusPrefixOfLastCall(count, pfx) ==
    IF pfx # <<>> THEN pfx[(((count - 1) \div 3) % Len(pfx)) + 1] ELSE "No prefixes"

\* current_prefix of status_command (main.py)
StatusPrefix(count, pfx) ==
    IF pfx # <<>> THEN pfx[((count \div 3) % Len(pfx)) + 1] ELSE "No prefixes"

\* status_command; only main.py shows a current prefix
StatusCommand ==
    /\ pc = "idle"
    /\ pc' = "idle"
    /\ reply' = "status"
    /\ call' = IF impl = "main"
               THEN [op |-> "status",
                     current_prefix |-> StatusPrefix(message_count, prefixes)]
               ELSE NoCall
    /\ fwd' = NoFwd
    /\ before' = prefixes
    /\ UNCHANGED <<impl, message_count, nCalls, tasks, prefixes, fixed_anime_name,
                   dump_channel_id, config, changed>>

\* ------------------------------------------------------------------------
\* The program
\* ------------------------------------------------------------------------

\* the text handed to send_to_dump_channel when it is called on its own
ForwardTexts == {"/leech -n [S01-E01] Unknown Anime [720P] [Single].mkv"}

\* the captions of the messages that are forwarded
ForwardInputs == {"", "hello"}

\* Formatting and the settings: every handler but /dumpchannel.  The dump
\* channel stays unset, so that no handler forwards.
FormatNext ==
    \/ \E c \in Inputs : Format(c)
    \/ \E c \in Captions : FormatCommand(c)
    \/ \E c \in Inputs : HandleMedia(c)
    \/ \E c \in Captions : HandleText(c)
    \/ \E t \in PrefixTokens \cup {""} : AddPrefixCommand(t)
    \/ \E n \in DelNumbers : DelPrefixCommand(n)
    \/ PrefixListCommand
    \/ \E n \in Names \cup {"", "reset"} : NameCommand(n)
    \/ StatusCommand
    \/ Restart

FormatSpec == Init /\ [][FormatNext]_vars

\* Forwarding: /dumpchannel, the handlers that forward, send_to_dump_channel
\* on its own and its steps.  The prefix list and the fixed name stay as
\* they were at the start.
ForwardNext ==
    \/ \E c \in Channels \cup {"", "reset", "1001"} : DumpChannelCommand(c)
    \/ \E c \in ForwardInputs : HandleMedia(c)
    \/ \E c \in ForwardInputs \ {""} : HandleText(c)
    \/ \E t \in ForwardTexts : Forward(t)
    \/ \E o \in Outcomes : SendAttempt(o)
    \/ Finish

ForwardSpec == Init /\ [][ForwardNext]_vars

\* The parser: parse_caption on many captions, under the fixed names that
\* /name sets and resets.
ParseNext ==
    \/ \E c \in ParserCaptions \cup Inputs : Format(c)
    \/ \E n \in ParserNames \cup {"", "reset"} : NameCommand(n)

ParseSpec == Init /\ [][ParseNext]_vars

\* the captions of the handlers that run side by side
ConcurrentCaptions == {"", "hello"}

\* the arguments of /addprefix and /delprefix given meanwhile
ConcurrentTokens == {"/mirror -n"}

ConcurrentNumbers == {1, 2}

\* Handlers that run side by side: their parse_caption calls, and the
\* commands that edit the prefix list, one step of the event loop each.
ConcurrentNext ==
    \/ \E t \in Tasks, c \in ConcurrentCaptions : TaskParse(t, c)
    \/ \E t \in Tasks : TaskLogged(t)
    \/ \E t \in ConcurrentTokens : AddPrefixCommand(t)
    \/ \E n \in ConcurrentNumbers : DelPrefixCommand(n)

ConcurrentSpec == Init /\ [][ConcurrentNext]_vars

\* /status between the parse_caption calls and the edits of the prefix list
StatusNext ==
    \/ \E c \in ConcurrentCaptions : Format(c)
    \/ StatusCommand
    \/ \E t \in ConcurrentTokens : AddPrefixCommand(t)
    \/ \E n \in ConcurrentNumbers : DelPrefixCommand(n)

StatusSpec == Init /\ [][StatusNext]_vars

\* in CounterSpec message_count is not raised beyond this
CounterMax == 3

\* the inputs of CounterSpec
CounterCaptions == {"", "hello"}

CounterTokens == {"", "/mirror -n"}

CounterChannels == Channels \cup {"", "reset"}

CounterOutcomes ==
    {[kind |-> "ok", text |-> ""], [kind |-> "telegram", text |-> "Network error"]}

\* the steps that call parse_caption
FormatStep ==
    \/ \E c \in CounterCaptions : Format(c)
    \/ \E c \in CounterCaptions \ {""} : FormatCommand(c)
    \/ \E c \in CounterCaptions \ {""} : HandleMedia(c)
    \/ \E c \in CounterCaptions \ {""} : HandleText(c)

\* the steps of the other handlers and of send_to_dump_channel
OtherStep ==
    \/ HandleMedia("")
    \/ \E t \in CounterTokens : AddPrefixCommand(t)
    \/ \E n \in DelNumbers : DelPrefixCommand(n)
    \/ PrefixListCommand
    \/ \E n \in Names \cup {"", "reset"} : NameCommand(n)
    \/ \E c \in CounterChannels : DumpChannelCommand(c)
    \/ StatusCommand
    \/ \E t \in ForwardTexts : Forward(t)
    \/ \E o \in CounterOutcomes : SendAttempt(o)
    \/ Finish

\* The counter: every handler, send_to_dump_channel and the restart, on few
\* inputs each.
CounterNext == (message_count < CounterMax /\ FormatStep) \/ OtherStep \/ Restart

CounterSpec == Init /\ [][CounterNext]_vars

\* the whole program
Next == FormatNext \/ ForwardNext \/ ParseNext \/ CounterNext \/ ConcurrentNext \/ StatusNext

Spec == Init /\ [][Next]_vars

\* ------------------------------------------------------------------------
\* Properties of parse_caption (checked on FormatSpec)
\* ------------------------------------------------------------------------

\* the last step was a parse_caption call that got a caption and formatted it
CaptionFormatted == call.op = "parse" /\ ~IsEmptyCaption(call.caption)

\* C1: while the prefix list has not been edited and the counter started at 0,
\* the n-th parse_caption call takes the prefix at index ((n - 1) div 3) mod L
\* of a list of L >= 1 prefixes: index 0 for calls 1 to 3, index 1 for calls
\* 4 to 6, and index 0 again after L blocks of three.
C1_RotationDeterminism ==
    (~changed /\ CaptionFormatted /\ Len(prefixes) >= 1) =>
        /\ call.prefix_index = ((nCalls - 1) \div 3) % Len(prefixes)
        /\ call.current_prefix = prefixes[(((nCalls - 1) \div 3) % Len(prefixes)) + 1]
        /\ (nCalls \in 1..3 => call.prefix_index = 0)
        /\ (nCalls \in 4..6 /\ Len(prefixes) >= 2 => call.prefix_index = 1)

\* C1 witness: the seventh call on a list of two prefixes is back at index 0
C1_WrapsAfterTwoBlocks ==
    /\ ~changed /\ CaptionFormatted
    /\ Len(prefixes) = 2 /\ nCalls = 7
    /\ call.prefix_index = 0 /\ call.current_prefix = prefixes[1]

\* C2: a parse_caption call on the empty caption changes no state: the
\* rotation counter after it equals the counter before it.
C2_EmptyCaptionKeepsCounter == [][Format("") => message_count' = message_count]_vars

\* C3: a caption made of blanks only is treated like the empty caption:
\* parse_caption returns no formatted caption for it.
C3_BlankCaptionNotFormatted ==
    (call.op = "parse" /\ Strip(call.caption) = "") => call.formatted = ""

\* C4: for every non-empty caption the result is the prefix, a space, the tag
\* [S<season>-E<episode>], a space, the title, a space, [<quality>], a space,
\* [Single], and the extension right after it, and nothing else.
C4_OutputShape ==
    CaptionFormatted =>
        /\ call.formatted =
               call.current_prefix \o " " \o "[S" \o call.season \o "-E" \o call.episode
                   \o "]" \o " " \o call.anime_name \o " " \o "[" \o call.quality \o "]"
                   \o " " \o "[Single]" \o call.extension
        /\ call.current_prefix =
               (IF prefixes = <<>> THEN "/leech -n" ELSE prefixes[call.prefix_index + 1])
        /\ call.anime_name # ""
        /\ call.extension \in {".mkv", ".mp4", ".avi"}

\* C4 witness: a caption with every field formatted under the first prefix
C4_FullCaptionFormatted ==
    /\ CaptionFormatted
    /\ call.caption = "@Channel - Naruto S01 EP05 [720p] Tamil"
    /\ call.formatted = "/leech -n [S01-E05] Naruto Tam [720P] [Single].mkv"

\* ------------------------------------------------------------------------
\* Properties of send_to_dump_channel (checked on ForwardSpec)
\* ------------------------------------------------------------------------

\* send_to_dump_channel is running or has just returned
Forwarding == fwd.caller # "none"

\* the k-th send_message call raised a TelegramError with a text of errors
Raised(k, errors) == fwd.outcomes[k].kind = "telegram" /\ fwd.outcomes[k].text \in errors

\* the k-th send_message call was the last one and the function returned ret
EndedAt(k, ret) == k = Len(fwd.outcomes) /\ pc = "done" /\ fwd.ret = ret

\* the error texts that contain the marks, letter case ignored
ChatNotFoundErrors == {e \in TelegramErrors : Contains("chat not found", Lower(e))}

NotFoundErrors == {e \in TelegramErrors : Contains("not found", Lower(e))}

PermissionErrors ==
    {e \in TelegramErrors :
        Contains("not enough rights", Lower(e)) \/ Contains("forbidden", Lower(e))}

RetryableErrors == TelegramErrors \ (NotFoundErrors \cup PermissionErrors)

\* C5: whatever the send_message calls do, a send_to_dump_channel call with a
\* dump channel set makes at most 3 of them before it returns.
C5_AtMostThreeDeliveries ==
    (Forwarding /\ dump_channel_id # "") =>
        /\ fwd.sent <= 3
        /\ fwd.sent = Len(fwd.outcomes)
        /\ (pc = "forward" => fwd.sent < 3)

\* C5 witness: a call that has returned after three send_message calls
C5_ThreeDeliveries == Forwarding /\ dump_channel_id # "" /\ pc = "done" /\ fwd.sent = 3

\* C6 as stated: an error whose text contains "not found" ends the call with
\* the destination-not-found detail, and such a call makes one send_message
\* call only.
C6_NotFoundEndsForward ==
    Forwarding =>
        \A k \in 1..Len(fwd.outcomes) :
            Raised(k, NotFoundErrors) =>
                EndedAt(k, Return(FALSE, "Dump channel not found")) /\ k = 1

\* C6: an error whose text contains "chat not found", letter case ignored,
\* ends the call at that attempt: it returns failure with the detail "Dump
\* channel not found" and makes no further send_message call.
C6_ChatNotFoundEndsForward ==
    Forwarding =>
        \A k \in 1..Len(fwd.outcomes) :
            Raised(k, ChatNotFoundErrors) =>
                EndedAt(k, Return(FALSE, "Dump channel not found")) /\ fwd.sent = k

\* C6 witness: the second attempt raised "Chat not found" and ended the call
C6_ChatNotFoundOnRetry ==
    /\ Forwarding /\ Len(fwd.outcomes) = 2
    /\ Raised(2, ChatNotFoundErrors)
    /\ pc = "done" /\ fwd.ret.detail = "Dump channel not found"

\* C7: in main.py and in bot.py, an error whose text contains "not enough
\* rights" or "forbidden", letter case ignored, is classified as missing
\* permission and ends the call at that attempt without a retry.
C7_PermissionErrorEndsForward ==
    Forwarding =>
        \A k \in 1..Len(fwd.outcomes) :
            Raised(k, PermissionErrors) =>
                EndedAt(k, Return(FALSE, "Bot lacks permissions in dump channel"))

\* C8: as soon as a send_message call succeeds the call returns success and
\* sends nothing more, also when the success comes on attempt 2 or 3 after
\* errors that were retried.
C8_SuccessEndsForward ==
    Forwarding =>
        \A k \in 1..Len(fwd.outcomes) :
            fwd.outcomes[k].kind = "ok" =>
                EndedAt(k, Return(TRUE, "Success")) /\ fwd.sent = k

\* C8 witness: success on the third attempt after two retried errors
C8_SuccessOnThirdAttempt ==
    /\ Forwarding /\ Len(fwd.outcomes) = 3
    /\ Raised(1, RetryableErrors) /\ Raised(2, RetryableErrors)
    /\ fwd.outcomes[3].kind = "ok"
    /\ pc = "done" /\ fwd.ret = Return(TRUE, "Success")

\* C9: when every send_message call raises an error that is neither a
\* not-found nor a permission error, the call does not return before the third
\* attempt; it makes exactly 3 calls and then returns failure with a detail
\* that tells the number of attempts.
C9_RetriedToTheCap ==
    (/\ Forwarding
     /\ fwd.outcomes # <<>>
     /\ \A k \in 1..Len(fwd.outcomes) : Raised(k, RetryableErrors)) =>
        IF Len(fwd.outcomes) < 3
        THEN pc = "forward"
        ELSE /\ fwd.sent = 3
             /\ pc = "done"
             /\ ~fwd.ret.success
             /\ Contains("3 attempts", fwd.ret.detail)

\* C9 witness: three retried errors in bot.py, then the failure is returned
C9_ThreeRetriedErrors ==
    /\ Forwarding /\ impl = "bot" /\ Len(fwd.outcomes) = 3
    /\ \A k \in 1..3 : Raised(k, RetryableErrors)
    /\ pc = "done" /\ ~fwd.ret.success

\* C10: with an empty dump channel the call returns failure with the detail
\* "Dump channel not configured" and makes no send_message call.
C10_NotConfiguredSendsNothing ==
    (Forwarding /\ dump_channel_id = "") =>
        /\ pc = "done"
        /\ fwd.ret = Return(FALSE, "Dump channel not configured")
        /\ fwd.sent = 0
        /\ fwd.outcomes = <<>>

\* C10 witness: send_to_dump_channel called while no dump channel is set
C10_CalledUnconfigured ==
    /\ Forwarding /\ dump_channel_id = "" /\ pc = "done"
    /\ fwd.ret.detail = "Dump channel not configured"

\* ------------------------------------------------------------------------
\* Properties of the prefix commands (checked on FormatSpec)
\* ------------------------------------------------------------------------

NoDuplicates(pfx) == \A i, j \in 1..Len(pfx) : pfx[i] = pfx[j] => i = j

\* the token is an element of the sequence
InList(t, pfx) == \E k \in 1..Len(pfx) : pfx[k] = t

\* C12: /addprefix with a token that is already in the list leaves the list
\* as it was and answers that the prefix exists; with another token it appends
\* the token as the last element.  So the list, free of duplicates at the
\* start, never holds a token twice.
C12_AddPrefixRefusesDuplicate ==
    /\ []NoDuplicates(prefixes)
    /\ [][\A t \in PrefixTokens :
             AddPrefixCommand(t) =>
                 IF InList(t, prefixes)
                 THEN reply' = "duplicate" /\ prefixes' = prefixes
                 ELSE /\ reply' = "added"
                      /\ Len(prefixes') = Len(prefixes) + 1
                      /\ prefixes'[Len(prefixes')] = t
                      /\ SubSeq(prefixes', 1, Len(prefixes)) = prefixes]_vars

\* C12 witness: a token added before is given again and refused
C12_AddedTokenGivenAgain ==
    /\ reply = "duplicate"
    /\ prefixes = before
    /\ prefixes[Len(prefixes)] = "/mirror -n"

\* C13: /addprefix with a token that is not in the list, followed by
\* /delprefix at the index of the appended element, gives back the list as it
\* was before the two commands: the same elements in the same order.
C13_AddThenDeleteRestores ==
    [][(reply = "added" /\ DelPrefixCommand(Len(prefixes))) => prefixes' = before]_vars

\* C13 witness: the appended token has been deleted again
C13_AppendedTokenDeleted ==
    /\ reply = "deleted"
    /\ before = <<"/leech -n", "/mirror -n">>
    /\ prefixes = <<"/leech -n">>

\* C14: the prefix list is not empty when a parse_caption call chooses the
\* prefix, whatever /addprefix, /delprefix and restarts came before.
C14_PrefixListNotEmptyAtRotation == CaptionFormatted => prefixes # <<>>

\* C15: with an empty prefix list parse_caption takes the built-in token
\* "/leech -n" as the prefix and still returns a formatted caption.
C15_EmptyListUsesDefaultPrefix ==
    (CaptionFormatted /\ prefixes = <<>>) =>
        /\ call.current_prefix = "/leech -n"
        /\ StartsWith(call.formatted, "/leech -n [S")
        /\ call.formatted =
               FormatCaption("/leech -n", "[S" \o call.season \o "-E" \o call.episode \o "]",
                             call.anime_name, call.quality, call.extension)

\* C15 witness: a caption formatted after the last prefix was deleted
C15_FormattedWithEmptyList ==
    /\ CaptionFormatted /\ prefixes = <<>>
    /\ call.formatted = "/leech -n [S01-E01] hello [720P] [Single].mkv"

\* ------------------------------------------------------------------------
\* Properties of the counter (checked on CounterSpec)
\* ------------------------------------------------------------------------

\* C16: message_count is changed by a parse_caption call only, which raises it
\* by exactly one; the prefix commands, /name, /dumpchannel, /status and
\* send_to_dump_channel leave it as it is, and it never goes down except when
\* the configuration is loaded again.
C16_CounterChangedByFormatOnly ==
    [][/\ FormatStep => message_count' = message_count + 1
       /\ OtherStep => message_count' = message_count
       /\ message_count' # message_count => (FormatStep \/ Restart)
       /\ message_count' < message_count => Restart]_vars

\* C16 witness: the counter has been raised and a prefix command, /name and
\* a forward have run since without changing it
C16_CounterKeptByCommands ==
    /\ message_count = 2 /\ config.message_count = 2
    /\ fixed_anime_name = "One Piece"
    /\ reply = "added"

\* ------------------------------------------------------------------------
\* Properties of the extractors and the title (checked on ParseSpec)
\* ------------------------------------------------------------------------

\* the quality tokens of the allow-list
QualityTokens == {"144P", "240P", "360P", "480P", "720P", "1080P", "1440P", "2160P"}

\* C17: the quality of every formatted caption is one of 144P, 240P, 360P,
\* 480P, 720P, 1080P, 1440P, 2160P; a matched number that is not in the
\* allow-list is passed over for the next pattern, and 720P is the result when
\* no pattern gives a listed number.
C17_QualityInAllowList ==
    CaptionFormatted =>
        /\ call.quality \in QualityTokens
        /\ (call.caption = "x 999p [1080]" => call.quality = "1080P")
        /\ (call.caption \in {"x 4k", "x 999p 480p", "hello"} => call.quality = "720P")

\* the part of C17 that the code keeps: the number of the quality, read as an
\* integer, is in the allow-list
QualityNumberListed ==
    CaptionFormatted =>
        /\ IsValidQuality(SubSeq(call.quality, 1, Len(call.quality) - 1))
        /\ Ch(call.quality, Len(call.quality)) = "P"
        /\ (call.caption = "x 999p [1080]" => call.quality = "1080P")
        /\ (call.caption \in {"x 4k", "x 999p 480p", "hello"} => call.quality = "720P")

\* the title with the language tag: the tag follows the title after one space
\* when it is not empty and not a substring of the title
TitleOf(base, tag) == IF tag # "" /\ ~Contains(tag, base) THEN base \o " " \o tag ELSE base

\* the cleaned title of the caption, "Unknown Anime" when it is empty
ExtractedTitle(x) == IF x.cleaned # "" THEN x.cleaned ELSE "Unknown Anime"

\* C18 as stated: while the fixed name is set, the title of every formatted
\* caption is the fixed name, with the language tag unless the tag is empty or
\* a substring of it; while it is reset to empty, the title is the cleaned
\* title of the caption, or "Unknown Anime" when that is empty.
C18_TitleFixedOrExtracted ==
    CaptionFormatted =>
        LET Title(x) ==
                IF fixed_anime_name # ""
                THEN call.anime_name = TitleOf(fixed_anime_name, x.language)
                ELSE call.anime_name = ExtractedTitle(x)
        IN  Title(ExtractTable[call.caption])

\* C18: the title of every formatted caption is the fixed name while it is
\* set, and the cleaned title of the caption, or "Unknown Anime" when that is
\* empty, while it is reset to empty; in both cases the language tag follows
\* it unless the tag is empty or a substring of it.
C18_TitleThenLanguageTag ==
    CaptionFormatted =>
        LET Title(x) ==
                call.anime_name =
                    TitleOf(IF fixed_anime_name # "" THEN fixed_anime_name
                            ELSE ExtractedTitle(x), x.language)
        IN  Title(ExtractTable[call.caption])

\* C18 witness: after a /name command at a counter above 0 left the fixed name
\* empty, a caption with a language is formatted under its own title
C18_ExtractedTitleWithTag ==
    /\ CaptionFormatted
    /\ fixed_anime_name = "" /\ config.fixed_anime_name = "" /\ config.message_count > 0
    /\ call.caption = "@Channel - Naruto S01 EP05 [720p] Tamil"
    /\ call.anime_name = "Naruto Tam"

\* "[S", at least `least` digits, "-E", at least `least` digits and "]" stand
\* in s at position i
TagAt(s, i, least) ==
    LET Episode(a, b) == b - a >= least /\ Ch(s, b) = "]"
        Season(a, b) == b - a >= least /\ At("-E", s, b) /\ Episode(b + 2, SkipDigits(s, b + 2))
    IN  At("[S", s, i) /\ Season(i + 2, SkipDigits(s, i + 2))

\* the positions of the season and episode tags in s
Tags(s, least) == {i \in 1..Len(s) : TagAt(s, i, least)}

\* C19: for every non-empty caption, also one that matches no pattern,
\* parse_caption returns a non-empty string with exactly one tag
\* [S<season>-E<episode>], whose season and episode have two digits or more.
C19_ExactlyOneTag ==
    CaptionFormatted =>
        /\ call.formatted # ""
        /\ Cardinality(Tags(call.formatted, 1)) = 1
        /\ Cardinality(Tags(call.formatted, 2)) = 1
        /\ Len(call.season) >= 2 /\ Len(call.episode) >= 2

\* what the code keeps of C19: the same, for a fixed name that holds no tag
OneTagUnlessInFixedName ==
    (CaptionFormatted /\ Tags(fixed_anime_name, 1) = {}) =>
        /\ call.formatted # ""
        /\ Cardinality(Tags(call.formatted, 1)) = 1
        /\ Cardinality(Tags(call.formatted, 2)) = 1
        /\ Len(call.season) >= 2 /\ Len(call.episode) >= 2

\* C20: clean_anime_name is idempotent: cleaning a cleaned title again gives
\* the same title.
C20_CleanIsIdempotent ==
    CaptionFormatted =>
        LET Again(x) == clean_anime_name(x.cleaned) = x.cleaned
        IN  Again(ExtractTable[call.caption])

\* the handlers that have called parse_caption
Started == {t \in Tasks : tasks[t].at # "idle"}

\* C21: when the parse_caption calls of several handlers overlap, each call
\* reads and raises message_count and looks its prefix up in one step: the k
\* calls made so far read k different counter values, the k values just below
\* message_count, each call raised the value it read by one, and its prefix is
\* the one its own counter value selects in the list as it was at that read.
C21_CounterStepIsAtomic ==
    /\ \A t \in Started :
          /\ tasks[t].count = tasks[t].read + 1
          /\ tasks[t].read \in (message_count - Cardinality(Started))..(message_count - 1)
          /\ tasks[t].formatted # "" =>
                tasks[t].current_prefix =
                    IF tasks[t].pfx = <<>> THEN "/leech -n"
                    ELSE tasks[t].pfx[(((tasks[t].count - 1) \div 3) % Len(tasks[t].pfx)) + 1]
    /\ \A t, u \in Started : t # u => tasks[t].read # tasks[u].read

\* two calls of bot.py are both at their await, and the list was edited after
\* the first of them looked its prefix up
C21_TwoCallsOverlap ==
    /\ impl = "bot"
    /\ \A t \in Tasks : tasks[t].at = "logging"
    /\ \E t \in Tasks : tasks[t].pfx # prefixes

\* ------------------------------------------------------------------------
\* More properties of send_to_dump_channel (checked on ForwardSpec)
\* ------------------------------------------------------------------------

\* C22 as stated: an error that is neither a not-found nor a permission error,
\* an exception that is no TelegramError included, never ends the call before
\* the third attempt.
C22_EveryOtherErrorRetried ==
    Forwarding =>
        \A k \in 1..Len(fwd.outcomes) :
            (k < 3 /\ (Raised(k, RetryableErrors) \/ fwd.outcomes[k].kind = "exception")) =>
                ~(k = Len(fwd.outcomes) /\ pc = "done")

\* C22: a TelegramError that is neither a not-found nor a permission error
\* never ends the call before the third attempt, and on the third attempt it
\* ends it with a failure that tells the number of attempts; an exception that
\* is no TelegramError is not retried: it ends the call at the attempt that
\* raised it, with the detail "Unexpected error: " and its text.
C22_TelegramErrorsRetriedExceptionsNot ==
    Forwarding =>
        \A k \in 1..Len(fwd.outcomes) :
            /\ (k < 3 /\ Raised(k, RetryableErrors)) =>
                  ~(k = Len(fwd.outcomes) /\ pc = "done")
            /\ (k = 3 /\ Raised(k, RetryableErrors)) =>
                  pc = "done" /\ ~fwd.ret.success /\ Contains("3 attempts", fwd.ret.detail)
            /\ fwd.outcomes[k].kind = "exception" =>
                  /\ EndedAt(k, Return(FALSE, "Unexpected error: " \o fwd.outcomes[k].text))
                  /\ fwd.sent = k

\* C22 witness: the first attempt raised an error that was retried, the second
\* one an exception that is no TelegramError, and the call has returned
C22_ExceptionOnRetry ==
    /\ Forwarding /\ Len(fwd.outcomes) = 2
    /\ Raised(1, RetryableErrors)
    /\ fwd.outcomes[2].kind = "exception"
    /\ pc = "done" /\ ~fwd.ret.success

\* the detail a terminal error is reported with
TerminalDetail(e) ==
    IF e \in ChatNotFoundErrors THEN "Dump channel not found"
    ELSE "Bot lacks permissions in dump channel"

\* C23: a not-found ("chat not found") or permission error is reported with its
\* terminal cause at whatever attempt it comes: on attempt 1 or 2 it ends the
\* call at that attempt, and on attempt 3 the call returns the terminal detail
\* and not the one that tells the number of attempts.
C23_TerminalAtEveryAttempt ==
    Forwarding =>
        \A k \in 1..Len(fwd.outcomes) :
            Raised(k, ChatNotFoundErrors \cup PermissionErrors) =>
                /\ EndedAt(k, Return(FALSE, TerminalDetail(fwd.outcomes[k].text)))
                /\ ~Contains("attempts", fwd.ret.detail)

\* the errors that the running script tests for in its TelegramError branch
RecognisedErrors ==
    IF impl = "main" THEN ChatNotFoundErrors \cup PermissionErrors
    ELSE {e \in TelegramErrors :
            Contains("chat not found", Lower(e)) \/ Contains("not enough rights", Lower(e))}

\* the same for the errors that the running script tests for: they end the
\* call with their terminal detail at attempt 1, 2 or 3 alike
C23_RecognisedAtEveryAttempt ==
    Forwarding =>
        \A k \in 1..Len(fwd.outcomes) :
            Raised(k, RecognisedErrors) =>
                EndedAt(k, Return(FALSE, TerminalDetail(fwd.outcomes[k].text)))

\* a recognised error came on the third attempt, after two retried ones
C23_RecognisedOnThirdAttempt ==
    /\ Forwarding /\ Len(fwd.outcomes) = 3 /\ pc = "done"
    /\ Raised(3, RecognisedErrors)

\* C24: between two send_message calls of one send_to_dump_channel call the
\* function sleeps, and each of these waits is longer than the one before.
C24_BackoffBetweenAttempts ==
    Forwarding =>
        /\ Len(fwd.waits) >= Len(fwd.outcomes) - 1
        /\ \A k \in 2..Len(fwd.waits) : fwd.waits[k] > fwd.waits[k - 1]

\* retries are made: a call has made its third send_message call
C24_ThreeAttempts == Forwarding /\ Len(fwd.outcomes) = 3

\* send_to_dump_channel runs, or has returned, for handle_media_with_caption
MediaForwarding == fwd.caller = "media"

\* C25: handle_media_with_caption calls send_to_dump_channel only with a dump
\* channel set and with the complete, non-empty caption that parse_caption
\* returned; while the call runs the user has no reply and the configuration
\* is not saved; once it has returned, with success or with failure, the
\* handler replies and saves the configuration.
C25_ForwardAfterFormatBeforeReply ==
    /\ [](MediaForwarding =>
            /\ pc \in {"forward", "done"}
            /\ dump_channel_id # ""
            /\ call.op = "parse" /\ call.formatted # ""
            /\ call.formatted =
                    FormatCaption(call.current_prefix,
                                  "[S" \o call.season \o "-E" \o call.episode \o "]",
                                  call.anime_name, call.quality, call.extension)
            /\ fwd.text = call.formatted
            /\ reply = "none")
    /\ [][/\ (MediaForwarding' /\ pc' \in {"forward", "done"}) => config' = config
          /\ (MediaForwarding /\ pc = "done") =>
                /\ pc' = "idle"
                /\ reply' = IF fwd.ret.success THEN "sent_to_dump" ELSE "dump_failed"
                /\ config' = Saved(fixed_anime_name, prefixes, dump_channel_id,
                                   message_count)]_vars

\* C25 witness: the call made for a media message has returned a failure after
\* three attempts, and the handler has not replied yet
C25_MediaForwardFailed ==
    /\ MediaForwarding /\ pc = "done" /\ Len(fwd.outcomes) = 3
    /\ ~fwd.ret.success /\ reply = "none"

\* ------------------------------------------------------------------------
\* More properties of the extractors (checked on ParseSpec)
\* ------------------------------------------------------------------------

\* what each episode pattern finds in the stripped text s, the patterns in the
\* order of their priority: whether it applies, and the season, episode and
\* title of its leftmost match
EpisodePatterns(s) ==
    LET P == 1..Len(s)
        No == [ok |-> FALSE, season |-> "", episode |-> "", name |-> ""]
        Found(r) == [ok |-> TRUE, season |-> r.season, episode |-> r.episode, name |-> r.name]
        Channel(m) == Found([season |-> Zfill2(m.season), episode |-> Zfill2(m.episode),
                             name |-> Strip(m.name)])
        Before(m, mark) == Found([season |-> Zfill2(m.season), episode |-> Zfill2(m.episode),
                                  name |-> Strip(BeforeMark(s, mark))])
        ChannelTitleFirst(hits) ==
            IF hits = {} THEN No ELSE Channel(ChannelSeAt(s, Min(hits)))
        ChannelBracketFirst(hits) ==
            IF hits = {} THEN No ELSE Channel(ChannelBracketAt(s, Min(hits)))
        Bracketed(hits, tag) ==
            IF hits = {} THEN No ELSE Before(BracketAt(s, Min(hits), tag), "[S")
        Unbracketed(hits, tag) ==
            IF hits = {} THEN No ELSE Before(SeasonEpisodeAt(s, Min(hits), tag), "S")
    IN  << IF Contains("~", s) /\ Contains("E=", s)
           THEN Found(parse_structured_format(s)) ELSE No,
           ChannelTitleFirst({i \in P : ChannelSeAt(s, i).ok}),
           ChannelBracketFirst({i \in P : ChannelBracketAt(s, i).ok}),
           Bracketed({i \in P : BracketAt(s, i, "E").ok}, "E"),
           Bracketed({i \in P : BracketAt(s, i, "EP").ok}, "EP"),
           Unbracketed({i \in P : SeasonEpisodeAt(s, i, "E").ok}, "E"),
           Unbracketed({i \in P : SeasonEpisodeAt(s, i, "EP").ok}, "EP") >>

\* the patterns that apply to s
Applying(s) == {k \in 1..7 : EpisodePatterns(s)[k].ok}

\* the result of the pattern of highest priority that applies to s; season and
\* episode "01" and s itself when none applies
ByPriority(s) ==
    LET Pick(ps, hits) ==
            IF hits = {} THEN [season |-> "01", episode |-> "01", name |-> s]
            ELSE [season |-> ps[Min(hits)].season, episode |-> ps[Min(hits)].episode,
                  name |-> ps[Min(hits)].name]
    IN  Pick(EpisodePatterns(s), Applying(s))

\* ByPriority for the captions of the model, the title cleaned, and the number
\* of patterns that apply
PriorityTable ==
    [c \in DOMAIN ExtractTable |->
        [season |-> ByPriority(Strip(c)).season, episode |-> ByPriority(Strip(c)).episode,
         cleaned |-> clean_anime_name(ByPriority(Strip(c)).name),
         applying |-> Cardinality(Applying(Strip(c)))]]

\* C26: the season, the episode and the title of a formatted caption are those
\* of the episode pattern of highest priority that applies to it: the
\* structured format when both of its marks occur, then the channel pattern
\* with the title first, the channel pattern with the bracket first, the
\* bracketed E and EP patterns, the unbracketed E and EP patterns; when no
\* pattern applies they are "01", "01" and the stripped caption.
C26_HighestPriorityPatternWins ==
    (call.op = "parse" /\ call.formatted # "") =>
        /\ call.season = PriorityTable[call.caption].season
        /\ call.episode = PriorityTable[call.caption].episode
        /\ fixed_anime_name = "" =>
              call.anime_name =
                  AnimeName("", PriorityTable[call.caption].cleaned, call.language)

\* C26 witness: a caption to which three patterns apply (channel with the
\* title first, bracketed E, unbracketed E) got the episode of the first
C26_SeveralPatternsApply ==
    /\ call.op = "parse" /\ call.formatted # ""
    /\ call.caption = "@c - N S1 EP2 [S3 E4]"
    /\ PriorityTable[call.caption].applying >= 3
    /\ call.season = "01" /\ call.episode = "02"

\* the keys of language_mappings that occur in t
KeysIn(t) == {k \in 1..Len(language_mappings) : Contains(language_mappings[k][1], t)}

\* the labelled audio segment of text, stripped and in lower case; "" when the
\* text has none
AudioSegment(text) ==
    LET Segment(hits) ==
            IF hits = {} THEN "" ELSE Lower(Strip(AudioAt(text, Min(hits)).text))
    IN  Segment({i \in 1..Len(text) : AudioAt(text, i).ok})

\* the tag of the first key of the audio segment when it holds a key, else of
\* the first key of the whole text in lower case, else ""
LanguageOf(text) ==
    LET Tag(inSegment, inText) ==
            IF inSegment # {} THEN language_mappings[Min(inSegment)][2]
            ELSE IF inText # {} THEN language_mappings[Min(inText)][2]
            ELSE ""
    IN  Tag(KeysIn(AudioSegment(text)), KeysIn(Lower(text)))

\* LanguageOf for the captions of the model, and the keys found
LanguageTable ==
    [c \in DOMAIN ExtractTable |->
        [language |-> LanguageOf(Strip(c)),
         inSegment |-> KeysIn(AudioSegment(Strip(c))),
         inText |-> KeysIn(Lower(Strip(c)))]]

\* C27: the language found in a caption is the tag of the first key, in the
\* order of the table, that the labelled audio segment contains when it
\* contains one; else the tag of the first key that the whole text in lower
\* case contains; else it is empty.  It is Tam, Eng, Multi, Dual or empty.
C27_FirstKeyInTableOrder ==
    (call.op = "parse" /\ call.formatted # "") =>
        /\ call.language = LanguageTable[call.caption].language
        /\ call.language \in {"Tam", "Eng", "Multi", "Dual", ""}

\* C27 witness: the audio segment holds the keys "eng" and "tamil", and the
\* tag is the one of "tamil", which comes first in the table
C27_TwoKeysInSegment ==
    /\ call.op = "parse" /\ call.formatted # ""
    /\ call.caption = "A=: eng tamil"
    /\ {2, 5} \subseteq LanguageTable[call.caption].inSegment
    /\ call.language = "Tam"

\* the segment holds no key and the whole text decides
C27_KeyOutsideSegment ==
    /\ call.op = "parse" /\ call.formatted # ""
    /\ call.caption = "A=: x\ntamil eng"
    /\ LanguageTable[call.caption].inSegment = {}
    /\ call.language = "Tam"

\* ------------------------------------------------------------------------
\* More properties of the rotation (checked on FormatSpec)
\* ------------------------------------------------------------------------

\* C28: whatever /addprefix, /delprefix and parse_caption calls came before and
\* whatever the counter is, a parse_caption call that finds the prefix list
\* not empty computes the index ((message_count - 1) div 3) mod L for the
\* length L the list has at that moment, an index within 0 .. L - 1, and
\* takes the prefix at that index.
C28_IndexWithinCurrentList ==
    (CaptionFormatted /\ prefixes # <<>>) =>
        /\ call.prefix_index = ((message_count - 1) \div 3) % Len(prefixes)
        /\ call.prefix_index \in 0..(Len(prefixes) - 1)
        /\ call.current_prefix = prefixes[call.prefix_index + 1]

\* C28 witness: the first of two prefixes has been deleted and the counter is
\* in its second block of three, where a list of two has index 1: the call
\* takes index 0 of the list of one
C28_FormattedAfterDeletion ==
    /\ CaptionFormatted /\ changed
    /\ prefixes = <<"/leech1 -n">> /\ message_count \in 4..6
    /\ call.prefix_index = 0 /\ call.current_prefix = "/leech1 -n"

\* ------------------------------------------------------------------------
\* The counters of bot.py (checked on ForwardSpec)
\* ------------------------------------------------------------------------

\* C29: in bot.py a send_to_dump_channel call with a dump channel set raises
\* neither dump_channel_sends nor dump_channel_fails while it retries, and by
\* the time it returns it has raised exactly one of them, by one: the sends on
\* success, the fails on every failure, however many attempts were made.
C29_OneCounterOnce ==
    (Forwarding /\ impl = "bot" /\ dump_channel_id # "") =>
        IF pc = "forward" THEN fwd.stats = [sends |-> 0, fails |-> 0]
        ELSE IF fwd.ret.success THEN fwd.stats = [sends |-> 1, fails |-> 0]
        ELSE fwd.stats = [sends |-> 0, fails |-> 1]

\* C29 witness: a call of bot.py has returned failure after three attempts
\* and has counted one fail
C29_FailCountedAfterRetries ==
    /\ Forwarding /\ impl = "bot" /\ dump_channel_id # ""
    /\ pc = "done" /\ Len(fwd.outcomes) = 3 /\ ~fwd.ret.success
    /\ fwd.stats = [sends |-> 0, fails |-> 1]

\* a call of bot.py has returned success on a retry and has counted one send
C29_SendCountedAfterRetry ==
    /\ Forwarding /\ impl = "bot" /\ pc = "done" /\ Len(fwd.outcomes) = 2
    /\ fwd.ret.success /\ fwd.stats = [sends |-> 1, fails |-> 0]

\* ------------------------------------------------------------------------
\* /status (checked on StatusSpec)
\* ------------------------------------------------------------------------

\* C30: in main.py, when /status has shown the current prefix of a list that
\* is not empty and the next step is a parse_caption call that formats a
\* caption, the call uses the prefix that was shown; the index (c div 3) mod L
\* of /status at counter c is the index ((c + 1) - 1) div 3 mod L of the call.
C30_StatusShowsNextPrefix ==
    /\ [](call.op = "status" /\ prefixes # <<>> =>
            /\ call.current_prefix = prefixes[((message_count \div 3) % Len(prefixes)) + 1]
            /\ (message_count \div 3) % Len(prefixes)
                   = (((message_count + 1) - 1) \div 3) % Len(prefixes))
    /\ [][(/\ call.op = "status" /\ prefixes # <<>>
           /\ call'.op = "parse" /\ call'.formatted # "") =>
              /\ message_count' = message_count + 1
              /\ call'.current_prefix = call.current_prefix]_vars

\* C30 witness: /status of main.py at counter 3 with two prefixes, the last
\* call having used the first one, shows the second one
C30_StatusAtBlockEnd ==
    /\ impl = "main" /\ call.op = "status"
    /\ message_count = 3 /\ Len(prefixes) = 2
    /\ call.current_prefix = prefixes[2]

====
